---- MODULE Spec2Model ----
(***************************************************************************)
(* The audit cursor of pkg/audit: Cursor.NextStripe and its helpers        *)
(* getRandomValidPointer, getRandomStripe and getRandomPointer, run by     *)
(* several callers against one pointerdb whose content is changed by       *)
(* uploads and deletes outside the cursor.                                 *)
(***************************************************************************)
EXTENDS Integers, Sequences, FiniteSets, TLC

\* ---------------------------------------------------------------- bounds
NumPaths == 2          \* paths of the keyspace are 1..NumPaths, in key order
PageLimit == 1         \* the most items one List page holds
NumCallers == 2        \* goroutines calling NextStripe on the one Cursor
MaxNow == 1            \* wall-clock instants are 0..MaxNow

\* ------------------------------------------------------------- constants
maxListAttempts == 4
maxGetAttempts == 4

Paths == 1..NumPaths
EmptyPath == 0
Callers == 1..NumCallers
NoCaller == 0

\* ------------------------------------------------------------- pointers
\* A pb.Pointer, reduced to the fields the cursor reads: its type, its
\* segment size, its expiration date (absent, malformed, or an instant) and
\* what the redundancy resolver makes of its scheme (an error, or a stripe
\* size z). Pointers are named by their place in this table.
Pointer(kind, size, hasExp, expOk, expT, resolvable, z) ==
    [kind |-> kind, size |-> size, hasExp |-> hasExp, expOk |-> expOk,
     expT |-> expT, resolvable |-> resolvable, z |-> z]

Pointers ==
    << Pointer("Remote", 5, FALSE, TRUE, 0, TRUE, 2),    \* valid, size >= stripe size
       Pointer("Remote", 1, TRUE, TRUE, 0, TRUE, 2),     \* valid until the clock passes 0
       Pointer("Inline", 1, TRUE, TRUE, 0, FALSE, 0),    \* inline, and expires too
       Pointer("Remote", 0, FALSE, TRUE, 0, TRUE, 2),    \* zero-size
       Pointer("Remote", 5, TRUE, FALSE, 0, TRUE, 2),    \* malformed expiration
       Pointer("Remote", 5, TRUE, TRUE, 1, FALSE, 0) >>  \* expires later; scheme the resolver rejects

PointerIds == 1..Len(Pointers)

\* The nil *pb.Pointer.
NilPointer == 0

\* No pointer stored under a path.
Absent == 0

\* The generated getters are nil-safe: on a nil pointer they give zero values.
GetType(p) == IF p = NilPointer THEN "Inline" ELSE Pointers[p].kind
GetSegmentSize(p) == IF p = NilPointer THEN 0 ELSE Pointers[p].size
HasExpirationDate(p) == p # NilPointer /\ Pointers[p].hasExp

\* ------------------------------------------------------------ pointerdb
RECURSIVE Collect(_, _, _)
Collect(idx, p, n) ==
    IF p > NumPaths \/ n = 0 THEN << >>
    ELSE IF idx[p] # Absent THEN <<p>> \o Collect(idx, p + 1, n - 1)
    ELSE Collect(idx, p + 1, n)

\* List("", startAfter, "", true, 0, meta.None): the first page of the keys
\* after startAfter, in key order, and whether keys remain beyond it.
ListItems(idx, startAfter) == Collect(idx, startAfter + 1, PageLimit)
ListMore(idx, startAfter) ==
    Cardinality({p \in Paths : p > startAfter /\ idx[p] # Absent}) > PageLimit

\* The redundancy resolver: eestream.NewRedundancyStrategyFromProto and
\* StripeSize. The zero scheme of a nil pointer is rejected.
ResolverFails(p) == p = NilPointer \/ ~Pointers[p].resolvable
StripeSize(p) == Pointers[p].z

\* --------------------------------------------------------------- results
NilStripe == [isNil |-> TRUE, Index |-> 0, Segment |-> NilPointer, SegmentPath |-> EmptyPath]
Stripe(index, segment, path) ==
    [isNil |-> FALSE, Index |-> index, Segment |-> segment, SegmentPath |-> path]
NoResult == [stripe |-> NilStripe, err |-> "none"]

\* ----------------------------------------------------------------- state
VARIABLES
    index,      \* pointerdb: path -> pointer, Absent where nothing is stored
    now,        \* time.Now()
    lastPath,   \* cursor.lastPath
    mutex,      \* cursor.mutex: the caller holding it, or NoCaller
    pc,         \* where each caller is in NextStripe
    loc,        \* each caller's local variables
    res,        \* what each caller's NextStripe is returning
    ctxDone,    \* whether each caller's ctx was cancelled during its call
    hist        \* what each caller's call has done so far

vars == <<index, now, lastPath, mutex, pc, loc, res, ctxDone, hist>>

InitLoc ==
    [attempts |-> 0, pointerItems |-> << >>, more |-> FALSE, path |-> EmptyPath,
     i |-> 0, pointerItem |-> EmptyPath, fetched |-> NilPointer,
     pointer |-> NilPointer]

InitHist ==
    [start |-> EmptyPath, nList |-> 0, nGet |-> 0, nDel |-> 0,
     delPath |-> EmptyPath, delOk |-> FALSE, moreFalse |-> FALSE,
     wrote |-> FALSE, accepted |-> FALSE, evalNow |-> 0]

Init ==
    /\ index = [p \in Paths |-> Absent]
    /\ now = 0
    /\ lastPath = EmptyPath
    /\ mutex = NoCaller
    /\ pc = [c \in Callers |-> "lock"]
    /\ loc = [c \in Callers |-> InitLoc]
    /\ res = [c \in Callers |-> NoResult]
    /\ ctxDone = [c \in Callers |-> FALSE]
    /\ hist = [c \in Callers |-> InitHist]

\* ------------------------------------------------------- pure helpers
TimestampFails_Never(p) == FALSE
\* ptypes.Timestamp(expiration) fails.
TimestampFails(p) == HasExpirationDate(p) /\ ~Pointers[p].expOk

Expired_AtBoundary(p, t) == HasExpirationDate(p) /\ Pointers[p].expOk /\ Pointers[p].expT <= t
Expired_NoClock(p, t) == HasExpirationDate(p) /\ Pointers[p].expOk
Expired_Mut(p, t) == HasExpirationDate(p) /\ Pointers[p].expOk /\ Pointers[p].expT > t
\* expiration != nil, it decodes, and t.Before(time.Now()).
Expired(p, t) == HasExpirationDate(p) /\ Pointers[p].expOk /\ Pointers[p].expT < t

Invalid_Mut(p) == GetType(p) # "Remote" /\ GetSegmentSize(p) = 0
\* pointer.GetType() != pb.Pointer_REMOTE || pointer.GetSegmentSize() == 0
Invalid(p) == GetType(p) # "Remote" \/ GetSegmentSize(p) = 0

NextLastPath_NoAdvance(items, more) == EmptyPath
NextLastPath_NoWrap(items, more) == items[Len(items)]
\* The value getRandomValidPointer gives cursor.lastPath.
NextLastPath(items, more) == IF ~more THEN EmptyPath ELSE items[Len(items)]

StripeIndexes_Mut(s, z) == IF s < z THEN {0} ELSE 0..(s \div z)
\* The stripe indexes getRandomStripe can return for segment size s and stripe size z.
StripeIndexes(s, z) == IF s < z THEN {0} ELSE 0..((s \div z) - 1)

\* for attempts < maxListAttempts
ListLoopContinues_Mut(attempts) == attempts <= maxListAttempts
ListLoopContinues(attempts) == attempts < maxListAttempts

\* The indexes getRandomPointer can draw in a page.
RandomIndexes(items) == 1..Len(items)

\* Caller c goes to label with locals l and history h.
Goto(c, label, l, h) ==
    /\ pc' = [pc EXCEPT ![c] = label]
    /\ loc' = [loc EXCEPT ![c] = l]
    /\ hist' = [hist EXCEPT ![c] = h]
    /\ UNCHANGED res

\* NextStripe returns (stripe, err); the deferred Unlock has yet to run.
Return(c, l, h, stripe, err) ==
    /\ pc' = [pc EXCEPT ![c] = "ret"]
    /\ loc' = [loc EXCEPT ![c] = l]
    /\ hist' = [hist EXCEPT ![c] = h]
    /\ res' = [res EXCEPT ![c] = [stripe |-> stripe, err |-> err]]

\* ---------------------------------------------------------- NextStripe
Lock_NoWait(c) ==
    /\ pc[c] = "lock"
    /\ mutex' = c
    /\ Goto(c, "list", InitLoc, [InitHist EXCEPT !.start = lastPath])
    /\ UNCHANGED <<index, now, lastPath, ctxDone>>

\* cursor.mutex.Lock()
Lock(c) ==
    /\ pc[c] = "lock"
    /\ mutex = NoCaller
    /\ mutex' = c
    /\ Goto(c, "list", InitLoc, [InitHist EXCEPT !.start = lastPath])
    /\ UNCHANGED <<index, now, lastPath, ctxDone>>

Attempt_OneMore(c, l, h) ==
    IF l.i > maxGetAttempts
    THEN /\ Return(c, l, h, NilStripe, "ExhaustedSampling")
         /\ UNCHANGED lastPath
    ELSE \/ /\ Return(c, l, h, NilStripe, "RandErr")
            /\ UNCHANGED lastPath
         \/ \E k \in RandomIndexes(l.pointerItems) :
               /\ lastPath' = NextLastPath(l.pointerItems, l.more)
               /\ Goto(c, "get", [l EXCEPT !.pointerItem = l.pointerItems[k]],
                                 [h EXCEPT !.wrote = TRUE])

\* One attempt of getRandomValidPointer up to its Get: the loop test, the
\* random draw and the update of cursor.lastPath.
Attempt(c, l, h) ==
    IF l.i >= maxGetAttempts
    THEN /\ Return(c, l, h, NilStripe, "ExhaustedSampling")
         /\ UNCHANGED lastPath
    ELSE \/ /\ Return(c, l, h, NilStripe, "RandErr")
            /\ UNCHANGED lastPath
         \/ \E k \in RandomIndexes(l.pointerItems) :
               /\ lastPath' = NextLastPath(l.pointerItems, l.more)
               /\ Goto(c, "get", [l EXCEPT !.pointerItem = l.pointerItems[k]],
                                 [h EXCEPT !.wrote = TRUE])

GetRandomStripe_NoResolverErr(c, l, h) ==
    LET p == l.pointer IN
    IF ResolverFails(p)
    THEN Return(c, l, h, Stripe(0, p, l.path), "nil")
    ELSE IF GetSegmentSize(p) < StripeSize(p)
    THEN Return(c, l, h, Stripe(0, p, l.path), "nil")
    ELSE \/ Return(c, l, h, NilStripe, "RandErr")
         \/ \E k \in StripeIndexes(GetSegmentSize(p), StripeSize(p)) :
               Return(c, l, h, Stripe(k, p, l.path), "nil")

GetRandomStripe_Mut(c, l, h) ==
    LET p == l.pointer IN
    IF ResolverFails(p)
    THEN Return(c, l, h, NilStripe, "ResolverErr")
    ELSE IF GetSegmentSize(p) < StripeSize(p)
    THEN Return(c, l, h, Stripe(0, p, l.path), "nil")
    ELSE \/ Return(c, l, h, Stripe(0, p, l.path), "RandErr")
         \/ \E k \in StripeIndexes(GetSegmentSize(p), StripeSize(p)) :
               Return(c, l, h, Stripe(k, p, l.path), "nil")

\* getRandomStripe(pointer) and the return of the Stripe. path is the local
\* NextStripe declares and never assigns.
GetRandomStripe(c, l, h) ==
    LET p == l.pointer IN
    IF ResolverFails(p)
    THEN Return(c, l, h, NilStripe, "ResolverErr")
    ELSE IF GetSegmentSize(p) < StripeSize(p)
    THEN Return(c, l, h, Stripe(0, p, l.path), "nil")
    ELSE \/ Return(c, l, h, NilStripe, "RandErr")
         \/ \E k \in StripeIndexes(GetSegmentSize(p), StripeSize(p)) :
               Return(c, l, h, Stripe(k, p, l.path), "nil")

Check_ValidityFirst(c, l, h) ==
    LET p == l.fetched
        h1 == IF HasExpirationDate(p) /\ ~TimestampFails(p)
              THEN [h EXCEPT !.evalNow = now] ELSE h
    IN  IF Invalid(p)
        THEN Attempt(c, [l EXCEPT !.i = @ + 1, !.fetched = NilPointer], h)
        ELSE IF TimestampFails(p)
        THEN /\ Return(c, l, h, NilStripe, "TimestampErr")
             /\ UNCHANGED lastPath
        ELSE IF Expired(p, now)
        THEN /\ Goto(c, "delete", l, h1)
             /\ UNCHANGED lastPath
        ELSE /\ GetRandomStripe(c, [l EXCEPT !.pointer = p], [h1 EXCEPT !.accepted = TRUE])
             /\ UNCHANGED lastPath

\* The checks on the pointer l.fetched: expiration first, then type and size.
Check(c, l, h) ==
    LET p == l.fetched
        h1 == IF HasExpirationDate(p) /\ ~TimestampFails(p)
              THEN [h EXCEPT !.evalNow = now] ELSE h
    IN  IF TimestampFails(p)
        THEN /\ Return(c, l, h, NilStripe, "TimestampErr")
             /\ UNCHANGED lastPath
        ELSE IF Expired(p, now)
        THEN /\ Goto(c, "delete", l, h1)
             /\ UNCHANGED lastPath
        ELSE IF Invalid(p)
        THEN Attempt(c, [l EXCEPT !.i = @ + 1, !.fetched = NilPointer], h)
        ELSE /\ GetRandomStripe(c, [l EXCEPT !.pointer = p], [h1 EXCEPT !.accepted = TRUE])
             /\ UNCHANGED lastPath

List_ResetOnEmpty(c) ==
    LET h == [hist[c] EXCEPT !.nList = @ + 1] IN
    /\ pc[c] = "list"
    /\ ListLoopContinues(loc[c].attempts)
    /\ UNCHANGED <<index, now, mutex, ctxDone>>
    /\ \/ /\ Return(c, loc[c], h, NilStripe, "ListErr")
          /\ UNCHANGED lastPath
       \/ LET items == ListItems(index, lastPath)
              more == ListMore(index, lastPath)
              l == [loc[c] EXCEPT !.pointerItems = items, !.more = more]
              h1 == [h EXCEPT !.moreFalse = ~more]
          IN  IF items # << >>
              THEN Attempt(c, [l EXCEPT !.attempts = 0], [h1 EXCEPT !.nList = 0])
              ELSE /\ lastPath' = EmptyPath
                   /\ IF ListLoopContinues(l.attempts + 1)
                      THEN Goto(c, "list", [l EXCEPT !.attempts = @ + 1], h1)
                      ELSE Return(c, [l EXCEPT !.attempts = @ + 1], h1,
                                  NilStripe, "ExhaustedListing")

\* One pass of the listing loop; a page with items ends the loop and starts
\* getRandomValidPointer.
List(c) ==
    LET h == [hist[c] EXCEPT !.nList = @ + 1] IN
    /\ pc[c] = "list"
    /\ ListLoopContinues(loc[c].attempts)
    /\ UNCHANGED <<index, now, mutex, ctxDone>>
    /\ \/ /\ Return(c, loc[c], h, NilStripe, "ListErr")
          /\ UNCHANGED lastPath
       \/ LET items == ListItems(index, lastPath)
              more == ListMore(index, lastPath)
              l == [loc[c] EXCEPT !.pointerItems = items, !.more = more]
              h1 == [h EXCEPT !.moreFalse = ~more]
          IN  IF items # << >>
              THEN \* the loop is left: attempts is not read again, and the
                   \* count of its List calls ends with it
                   Attempt(c, [l EXCEPT !.attempts = 0], [h1 EXCEPT !.nList = 0])
              ELSE /\ UNCHANGED lastPath
                   /\ IF ListLoopContinues(l.attempts + 1)
                      THEN Goto(c, "list", [l EXCEPT !.attempts = @ + 1], h1)
                      ELSE Return(c, [l EXCEPT !.attempts = @ + 1], h1,
                                  NilStripe, "ExhaustedListing")

Get_Retry(c) ==
    LET h == [hist[c] EXCEPT !.nGet = @ + 1] IN
    /\ pc[c] = "get"
    /\ UNCHANGED <<index, now, mutex, ctxDone>>
    /\ \/ /\ Return(c, loc[c], h, NilStripe, "GetErr")
          /\ UNCHANGED lastPath
       \/ /\ index[loc[c].pointerItem] = Absent
          /\ Attempt(c, [loc[c] EXCEPT !.i = @ + 1], h)
       \/ /\ index[loc[c].pointerItem] # Absent
          /\ Check(c, [loc[c] EXCEPT !.fetched = index[loc[c].pointerItem]], h)

\* cursor.pointerdb.Get(pointerItem.Path) and what follows it up to the next
\* call of the store.
Get(c) ==
    LET h == [hist[c] EXCEPT !.nGet = @ + 1] IN
    /\ pc[c] = "get"
    /\ UNCHANGED <<index, now, mutex, ctxDone>>
    /\ \/ /\ Return(c, loc[c], h, NilStripe, "GetErr")
          /\ UNCHANGED lastPath
       \/ /\ index[loc[c].pointerItem] = Absent
          /\ Return(c, loc[c], h, NilStripe, "NotFound")
          /\ UNCHANGED lastPath
       \/ /\ index[loc[c].pointerItem] # Absent
          /\ Check(c, [loc[c] EXCEPT !.fetched = index[loc[c].pointerItem]], h)

Delete_Swallow(c) ==
    LET h == [hist[c] EXCEPT !.nDel = @ + 1, !.delPath = loc[c].pointerItem] IN
    /\ pc[c] = "delete"
    /\ UNCHANGED <<now, lastPath, mutex, ctxDone>>
    /\ \/ /\ Return(c, loc[c], h, NilStripe, "nil")
          /\ UNCHANGED index
       \/ /\ index' = [index EXCEPT ![loc[c].pointerItem] = Absent]
          /\ GetRandomStripe(c, [loc[c] EXCEPT !.pointer = NilPointer],
                                [h EXCEPT !.delOk = TRUE])

Delete_Continue(c) ==
    LET h == [hist[c] EXCEPT !.nDel = @ + 1, !.delPath = loc[c].pointerItem] IN
    /\ pc[c] = "delete"
    /\ UNCHANGED <<now, mutex, ctxDone>>
    /\ \/ /\ Return(c, loc[c], h, NilStripe, "DeleteErr")
          /\ UNCHANGED <<index, lastPath>>
       \/ /\ index' = [index EXCEPT ![loc[c].pointerItem] = Absent]
          /\ Attempt(c, [loc[c] EXCEPT !.i = @ + 1, !.fetched = NilPointer],
                        [h EXCEPT !.delOk = TRUE])

\* return nil, cursor.pointerdb.Delete(pointerItem.Path): with a nil error
\* NextStripe goes on to getRandomStripe with the nil pointer.
Delete(c) ==
    LET h == [hist[c] EXCEPT !.nDel = @ + 1, !.delPath = loc[c].pointerItem] IN
    /\ pc[c] = "delete"
    /\ UNCHANGED <<now, lastPath, mutex, ctxDone>>
    /\ \/ /\ Return(c, loc[c], h, NilStripe, "DeleteErr")
          /\ UNCHANGED index
       \/ /\ index' = [index EXCEPT ![loc[c].pointerItem] = Absent]
          /\ GetRandomStripe(c, [loc[c] EXCEPT !.pointer = NilPointer],
                                [h EXCEPT !.delOk = TRUE])

Unlock_OnSuccessOnly(c) ==
    /\ pc[c] = "ret"
    /\ res[c].err = "nil"
    /\ mutex' = NoCaller
    /\ pc' = [pc EXCEPT ![c] = "lock"]
    /\ loc' = [loc EXCEPT ![c] = InitLoc]
    /\ res' = [res EXCEPT ![c] = NoResult]
    /\ ctxDone' = [ctxDone EXCEPT ![c] = FALSE]
    /\ hist' = [hist EXCEPT ![c] = InitHist]
    /\ UNCHANGED <<index, now, lastPath>>

\* defer cursor.mutex.Unlock(); the caller is then free to call again.
Unlock(c) ==
    /\ pc[c] = "ret"
    /\ mutex' = NoCaller
    /\ pc' = [pc EXCEPT ![c] = "lock"]
    /\ loc' = [loc EXCEPT ![c] = InitLoc]
    /\ res' = [res EXCEPT ![c] = NoResult]
    /\ ctxDone' = [ctxDone EXCEPT ![c] = FALSE]
    /\ hist' = [hist EXCEPT ![c] = InitHist]
    /\ UNCHANGED <<index, now, lastPath>>

\* --------------------------------------------------------- environment
\* The index and the clock change between the calls the cursor makes to the
\* store; a return and its deferred Unlock follow the last of them at once.
Returning == \E c \in Callers : pc[c] = "ret"

\* An upload stores a pointer.
Put(p, v) ==
    /\ ~Returning
    /\ index[p] # v
    /\ index' = [index EXCEPT ![p] = v]
    /\ UNCHANGED <<now, lastPath, mutex, pc, loc, res, ctxDone, hist>>

\* A delete outside the cursor removes one.
ExternalDelete(p) ==
    /\ ~Returning
    /\ index[p] # Absent
    /\ index' = [index EXCEPT ![p] = Absent]
    /\ UNCHANGED <<now, lastPath, mutex, pc, loc, res, ctxDone, hist>>

\* The clock advances.
Tick ==
    /\ ~Returning
    /\ now < MaxNow
    /\ now' = now + 1
    /\ UNCHANGED <<index, lastPath, mutex, pc, loc, res, ctxDone, hist>>

\* The ctx of a call is cancelled while the call waits on the store.
Cancel(c) ==
    /\ pc[c] \in {"list", "get", "delete"}
    /\ ~ctxDone[c]
    /\ ctxDone' = [ctxDone EXCEPT ![c] = TRUE]
    /\ UNCHANGED <<index, now, lastPath, mutex, pc, loc, res, hist>>

Next ==
    \/ \E c \in Callers : Lock(c)
    \/ \E c \in Callers : List(c)
    \/ \E c \in Callers : Get(c)
    \/ \E c \in Callers : Delete(c)
    \/ \E c \in Callers : Unlock(c)
    \/ \E p \in Paths, v \in PointerIds : Put(p, v)
    \/ \E p \in Paths : ExternalDelete(p)
    \/ Tick

Spec == Init /\ [][Next]_vars

\* The same program under fair scheduling: a call of the store returns, a
\* deferred Unlock runs, and a goroutine blocked in Lock gets the mutex when
\* it is released again and again (sync.Mutex hands a starving waiter the
\* mutex).
Fairness ==
    \A c \in Callers :
        /\ WF_vars(List(c))
        /\ WF_vars(Get(c))
        /\ WF_vars(Delete(c))
        /\ WF_vars(Unlock(c))
        /\ SF_vars(Lock(c))

SpecFair == Init /\ [][Next]_vars /\ Fairness

\* The same program with callers whose ctx may be cancelled.
NextCancel ==
    \/ Next
    \/ \E c \in Callers : Cancel(c)

SpecCancel == Init /\ [][NextCancel]_vars

\* The cursor made over a pointerdb that already holds pointers, none of
\* which expires, and that nothing else writes to from then on.
StaticPointers == {x \in PointerIds : ~Pointers[x].hasExp}

InitStatic ==
    /\ index \in {f \in [Paths -> StaticPointers \cup {Absent}] :
                     \E p \in Paths : f[p] # Absent}
    /\ now = 0
    /\ lastPath = EmptyPath
    /\ mutex = NoCaller
    /\ pc = [c \in Callers |-> "lock"]
    /\ loc = [c \in Callers |-> InitLoc]
    /\ res = [c \in Callers |-> NoResult]
    /\ ctxDone = [c \in Callers |-> FALSE]
    /\ hist = [c \in Callers |-> InitHist]

NextStatic ==
    \/ \E c \in Callers : Lock(c)
    \/ \E c \in Callers : List(c)
    \/ \E c \in Callers : Get(c)
    \/ \E c \in Callers : Unlock(c)

SpecStatic == InitStatic /\ [][NextStatic]_vars

TypeOK ==
    /\ index \in [Paths -> PointerIds \cup {Absent}]
    /\ now \in 0..MaxNow
    /\ lastPath \in Paths \cup {EmptyPath}
    /\ mutex \in Callers \cup {NoCaller}

\* ================================================================ claims
Returned(c) == pc[c] = "ret"
GotStripe(c) == Returned(c) /\ ~res[c].stripe.isNil

\* The pointer x carries a well-formed expiration that lies before instant t.
PastExpiration(x, t) ==
    x \in PointerIds /\ Pointers[x].hasExp /\ Pointers[x].expOk /\ Pointers[x].expT < t

\* The pointer the call last fetched was expired when the call looked at it.
SelectedExpired(c) == PastExpiration(loc[c].fetched, hist[c].evalNow)

\* C1: the segment of every returned Stripe is the pointer fetched in that
\* call, and that pointer is Remote, of nonzero size and not expired.
C1_Validity ==
    \A c \in Callers : GotStripe(c) =>
        LET s == res[c].stripe.Segment IN
        /\ s \in PointerIds
        /\ s = loc[c].fetched
        /\ Pointers[s].kind = "Remote"
        /\ Pointers[s].size # 0
        /\ ~PastExpiration(s, hist[c].evalNow)

\* A Stripe is returned after an earlier attempt of the call was skipped.
C1_Witness == \E c \in Callers : GotStripe(c) /\ loc[c].i > 0

\* C2: a call returns (Stripe, nil), (nil, nil) or (nil, error), never a
\* Stripe together with an error.
C2_OutcomeShapes ==
    \A c \in Callers : Returned(c) =>
        /\ res[c].err # "none"
        /\ ~res[c].stripe.isNil => res[c].err = "nil"
        /\ res[c].stripe.isNil => res[c].stripe = NilStripe

\* A call returns a Stripe drawn among several stripe indexes.
C2_Witness == \E c \in Callers : GotStripe(c) /\ res[c].stripe.Index > 0

\* C3: a call whose fetched pointer is expired issues one Delete, for that
\* pointer's path, and does not return that pointer in a Stripe; no returned
\* Stripe has an expired segment.
C3_ExpirationReaping ==
    \A c \in Callers :
        /\ (Returned(c) /\ SelectedExpired(c)) =>
              /\ hist[c].nDel = 1
              /\ hist[c].delPath = loc[c].pointerItem
              /\ res[c].stripe.Segment # loc[c].fetched
        /\ GotStripe(c) => ~PastExpiration(res[c].stripe.Segment, now)

\* A call has deleted the expired pointer it selected.
C3_Witness ==
    \E c \in Callers : Returned(c) /\ SelectedExpired(c) /\ hist[c].delOk
                       /\ index[loc[c].pointerItem] = Absent

\* C4: a call on an index holding only expired pointers, all in one page,
\* that deletes the pointer it selected returns (nil, nil) and leaves
\* the index without that pointer.
C4_ExpiredReturnsNilNil ==
    \A c \in Callers :
        ( /\ Returned(c) /\ SelectedExpired(c) /\ hist[c].delOk
          /\ Cardinality({p \in Paths : index[p] # Absent}) < PageLimit
          /\ \A p \in Paths : index[p] # Absent => PastExpiration(index[p], now) )
        => /\ res[c].stripe.isNil
           /\ res[c].err = "nil"
           /\ index[loc[c].pointerItem] = Absent

\* C5: a call whose List calls all return an empty page returns the
\* Exhausted-Listing error after maxListAttempts List calls and no Get or
\* Delete.
C5_Exhaustion ==
    \A c \in Callers :
        /\ (Returned(c) /\ loc[c].pointerItems = << >> /\ res[c].err # "ListErr") =>
              /\ res[c].err = "ExhaustedListing"
              /\ res[c].stripe.isNil
        /\ (Returned(c) /\ res[c].err = "ExhaustedListing") =>
              /\ hist[c].nList = maxListAttempts
              /\ hist[c].nGet = 0
              /\ hist[c].nDel = 0
              /\ ~hist[c].wrote

\* A call returns the Exhausted-Listing error.
C5_Witness == \E c \in Callers : Returned(c) /\ res[c].err = "ExhaustedListing"

\* C6: a call whose listing reported more = false (its last listing, when it
\* listed several times) returns with lastPath empty; stated here for the
\* calls that no failure of the store or of the random source ended.
C6_CyclicPagination ==
    \A c \in Callers :
        ( /\ Returned(c) /\ hist[c].moreFalse
          /\ res[c].err \notin {"RandErr", "ListErr", "GetErr", "DeleteErr"} )
        => lastPath = EmptyPath

\* C7: a caller between Lock and the end of its call holds the mutex, so at
\* most one caller is there, and the cursor reads and writes lastPath and
\* calls the store only there.
C7_MutualExclusion ==
    /\ \A c \in Callers : pc[c] \in {"list", "get", "delete", "ret"} => mutex = c
    /\ \A c, d \in Callers : (pc[c] # "lock" /\ pc[d] # "lock") => c = d

\* One caller is calling the store while another is at Lock.
C7_Witness ==
    \E c, d \in Callers : c # d /\ pc[c] = "get" /\ mutex = c /\ pc[d] = "lock"

\* C8 as stated: lastPath is only set from a page whose selection ran to
\* acceptance.
C8_OnlyAcceptedPagesMoveCursor ==
    \A c \in Callers : (Returned(c) /\ hist[c].wrote) => hist[c].accepted

\* C8 amended: lastPath is changed only by the caller holding the mutex, as
\* it draws an item from the page it listed, and to the value that page
\* gives: its last path if more pages remain, the empty path if not.
C8_CursorMovedByLockHolder ==
    [][ lastPath' # lastPath =>
          \E c \in Callers :
             /\ mutex = c
             /\ pc[c] \in {"list", "get"}
             /\ pc'[c] = "get"
             /\ loc'[c].pointerItems # << >>
             /\ loc'[c].pointerItem \in
                   {loc'[c].pointerItems[k] : k \in 1..Len(loc'[c].pointerItems)}
             /\ lastPath' = IF loc'[c].more
                            THEN loc'[c].pointerItems[Len(loc'[c].pointerItems)]
                            ELSE EmptyPath ]_vars

\* A call has moved lastPath and is fetching, while another caller is at Lock.
C8_Witness ==
    \E c, d \in Callers :
        /\ c # d /\ pc[d] = "lock"
        /\ pc[c] = "get" /\ hist[c].wrote /\ lastPath # hist[c].start

\* C9: a call whose ctx was cancelled while it was in progress returns
\* (nil, cancellation error) and leaves lastPath as it was at its start.
C9_CancellationHonoured ==
    \A c \in Callers : (Returned(c) /\ ctxDone[c]) =>
        /\ res[c].stripe.isNil
        /\ res[c].err = "Canceled"
        /\ lastPath = hist[c].start

\* C10: the SegmentPath of a returned Stripe is the path of the pointer
\* selected and fetched in the call.
C10_SegmentPath ==
    \A c \in Callers : GotStripe(c) =>
        /\ res[c].stripe.SegmentPath = loc[c].pointerItem
        /\ res[c].stripe.SegmentPath \in Paths

\* A step of some caller's NextStripe, as opposed to a step of the environment.
CursorStep == <<pc, loc, res, hist>>' # <<pc, loc, res, hist>>

\* C11: no step of NextStripe stores or changes a pointer; the only entry
\* such a step removes is the one under the path the caller selected, and the
\* pointer that caller fetched from that path had an expiration before the
\* instant of its check; a call is about to Delete only after fetching such
\* a pointer.
C11_Frame ==
    [][ CursorStep =>
          /\ \A c \in Callers :
                (pc'[c] = "delete" /\ pc[c] # "delete") =>
                    PastExpiration(loc'[c].fetched, now)
          /\ index' # index =>
                \E c \in Callers :
                   /\ pc[c] = "delete"
                   /\ PastExpiration(loc[c].fetched, hist[c].evalNow)
                   /\ index' = [index EXCEPT ![loc[c].pointerItem] = Absent] ]_vars

\* A call has deleted the expired pointer it selected, and the other path
\* still holds a pointer that is not expired.
C11_Witness ==
    \E c \in Callers :
        /\ Returned(c) /\ hist[c].delOk /\ index[loc[c].pointerItem] = Absent
        /\ \E p \in Paths : /\ p # loc[c].pointerItem
                            /\ index[p] # Absent
                            /\ ~PastExpiration(index[p], now)

\* C12: a call returns (nil, nil) exactly when it selected an expired pointer
\* and its Delete succeeded; every other call that returns no Stripe returns
\* an error.
C12_NoSilentSuppression ==
    \A c \in Callers : Returned(c) =>
        /\ (res[c].stripe.isNil /\ res[c].err = "nil")
              <=> (SelectedExpired(c) /\ hist[c].delOk)
        /\ (res[c].stripe.isNil /\ ~(SelectedExpired(c) /\ hist[c].delOk))
              => res[c].err \notin {"nil", "none"}

\* C13: the Index of a returned Stripe whose segment has size S > 0 and
\* stripe size Z > 0 is 0 when S < Z, and otherwise lies in 0 .. S div Z - 1,
\* so that it is never negative and stripe Index ends within the segment.
C13_StripeBounds ==
    \A c \in Callers :
        (GotStripe(c) /\ res[c].stripe.Segment \in PointerIds) =>
            LET S == Pointers[res[c].stripe.Segment].size
                Z == Pointers[res[c].stripe.Segment].z
                i == res[c].stripe.Index
            IN  (S > 0 /\ Z > 0) =>
                   /\ i \in Int /\ i >= 0
                   /\ S < Z => i = 0
                   /\ S >= Z => /\ i < S \div Z
                                /\ (i + 1) * Z <= S

\* A Stripe is returned with the last index of a segment of several stripes,
\* the segment ending in a partial stripe.
C13_Witness ==
    \E c \in Callers :
        /\ GotStripe(c) /\ res[c].stripe.Segment \in PointerIds
        /\ LET S == Pointers[res[c].stripe.Segment].size
               Z == Pointers[res[c].stripe.Segment].z
           IN  /\ Z > 0 /\ S >= 2 * Z /\ S % Z # 0
               /\ res[c].stripe.Index = (S \div Z) - 1

\* C15: when a call that listed a page with items and issued a Get returns,
\* whatever it returns, lastPath is the last path of that page if the
\* listing reported more, and the empty path if it did not.
C15_CursorUpdateRule ==
    \A c \in Callers :
        (Returned(c) /\ loc[c].pointerItems # << >> /\ hist[c].nGet > 0) =>
            lastPath = IF loc[c].more
                       THEN loc[c].pointerItems[Len(loc[c].pointerItems)]
                       ELSE EmptyPath

\* A call that moved lastPath forward, more pages remaining, returns the
\* Exhausted-Sampling error.
C15_Witness ==
    \E c \in Callers :
        /\ Returned(c) /\ hist[c].nGet > 0 /\ loc[c].more
        /\ res[c].err = "ExhaustedSampling"
        /\ lastPath # hist[c].start

\* C16: a call is about to List only after fewer than maxListAttempts List
\* calls, each of which returned an empty page, and with lastPath as it was
\* when the call started; a List that returns a page with items, be it one
\* item, is the last List of its call.
C16_ListingPhaseBound ==
    /\ [](\A c \in Callers : pc[c] = "list" =>
             /\ hist[c].nList < maxListAttempts
             /\ hist[c].nList = loc[c].attempts
             /\ loc[c].pointerItems = << >>
             /\ lastPath = hist[c].start)
    /\ [][ \A c \in Callers :
             /\ (pc[c] = "list" /\ pc'[c] = "list" /\ hist'[c] # hist[c]) =>
                   /\ hist'[c].nList = hist[c].nList + 1
                   /\ ListItems(index, lastPath) = << >>
             /\ (pc[c] = "list" /\ loc'[c].pointerItems # << >>) =>
                   pc'[c] \in {"get", "ret"}
             /\ pc[c] \in {"get", "delete"} => pc'[c] # "list"
             /\ pc[c] = "ret" => pc'[c] \in {"ret", "lock"} ]_vars

\* After three empty pages a call is about to List a fourth time, and a page
\* of one item awaits it.
C16_Witness ==
    \E c \in Callers :
        /\ pc[c] = "list" /\ hist[c].nList = maxListAttempts - 1
        /\ Len(ListItems(index, lastPath)) = 1

\* C17: a call issues at most maxGetAttempts Get calls; a call whose
\* maxGetAttempts Gets all succeeded and gave pointers that were neither
\* expired nor acceptable returns (nil, Exhausted-Sampling) without a Delete,
\* and only such a call returns that error.
C17_SelectionBound ==
    \A c \in Callers :
        /\ hist[c].nGet <= maxGetAttempts
        /\ ( /\ Returned(c) /\ hist[c].nGet = maxGetAttempts
             /\ res[c].err \notin {"GetErr", "NotFound", "TimestampErr"}
             /\ hist[c].nDel = 0 /\ ~hist[c].accepted )
           => res[c].err = "ExhaustedSampling"
        /\ (Returned(c) /\ res[c].err = "ExhaustedSampling") =>
              /\ res[c].stripe.isNil
              /\ hist[c].nGet = maxGetAttempts
              /\ hist[c].nDel = 0
              /\ ~hist[c].accepted

\* A call returns the Exhausted-Sampling error while the index holds a
\* pointer that is Remote, of nonzero size and without expiration.
C17_Witness ==
    \E c \in Callers :
        /\ Returned(c) /\ res[c].err = "ExhaustedSampling"
        /\ \E p \in Paths :
              /\ index[p] # Absent
              /\ Pointers[index[p]].kind = "Remote"
              /\ Pointers[index[p]].size > 0
              /\ ~Pointers[index[p]].hasExp

\* C18: a call that fetched an expired pointer goes on to Delete; it is
\* about to Delete only before any Delete of its own, the step that issues
\* the Delete ends the call with no List or Get added, and a call that has
\* ended issues nothing more, so that a call deletes at most once.
C18_EarlyReturnOnExpiration ==
    /\ [](\A c \in Callers :
             /\ hist[c].nDel <= 1
             /\ pc[c] = "delete" => (hist[c].nDel = 0 /\ SelectedExpired(c))
             /\ (Returned(c) /\ SelectedExpired(c)) => hist[c].nDel = 1)
    /\ [][ \A c \in Callers :
             /\ (pc[c] = "get" /\ hist'[c] # hist[c]
                  /\ PastExpiration(loc'[c].fetched, now)) => pc'[c] = "delete"
             /\ (pc[c] = "delete" /\ hist'[c] # hist[c]) =>
                   /\ pc'[c] = "ret"
                   /\ hist'[c].nDel = 1
                   /\ hist'[c].delPath = loc[c].pointerItem
                   /\ hist'[c].nGet = hist[c].nGet
                   /\ hist'[c].nList = hist[c].nList
             /\ pc[c] = "ret" =>
                   (pc'[c] = "ret" /\ hist'[c] = hist[c]) \/ pc'[c] = "lock" ]_vars

\* A call that skipped a pointer and then selected an expired one has
\* deleted it and returns with attempts to spare.
C18_Witness ==
    \E c \in Callers :
        /\ Returned(c) /\ SelectedExpired(c) /\ hist[c].nDel = 1
        /\ hist[c].nGet > 1 /\ hist[c].nGet < maxGetAttempts

\* C19: a Get of a path that holds no pointer ends the call, with no pointer
\* fetched by it; a call that returns the error of a Get returns it with a
\* nil Stripe, having issued no Delete, and a call that has ended issues
\* nothing more.
C19_FetchFailureNotRetried ==
    /\ [](\A c \in Callers :
             (Returned(c) /\ res[c].err \in {"GetErr", "NotFound"}) =>
                 /\ res[c].stripe.isNil
                 /\ hist[c].nGet >= 1
                 /\ hist[c].nDel = 0
                 /\ ~hist[c].accepted)
    /\ [][ \A c \in Callers :
             /\ (pc[c] = "get" /\ hist'[c] # hist[c]
                  /\ index[loc[c].pointerItem] = Absent) =>
                   /\ pc'[c] = "ret"
                   /\ res'[c].err \in {"GetErr", "NotFound"}
                   /\ hist'[c].nGet = hist[c].nGet + 1
                   /\ loc'[c].fetched = loc[c].fetched
             /\ (pc[c] = "get" /\ res'[c].err \in {"GetErr", "NotFound"}) =>
                   /\ pc'[c] = "ret"
                   /\ hist'[c].nGet = hist[c].nGet + 1
                   /\ hist'[c].nDel = 0
                   /\ index' = index /\ lastPath' = lastPath
             /\ (pc[c] = "ret" /\ res[c].err \in {"GetErr", "NotFound"}) =>
                   (pc'[c] = "ret" /\ hist'[c] = hist[c]) \/ pc'[c] = "lock" ]_vars

\* A call returns Not-Found for a path of the page it listed, the path
\* having been deleted since, with attempts to spare.
C19_Witness ==
    \E c \in Callers :
        /\ Returned(c) /\ res[c].err = "NotFound"
        /\ hist[c].nGet < maxGetAttempts
        /\ \E k \in 1..Len(loc[c].pointerItems) :
              loc[c].pointerItems[k] = loc[c].pointerItem
        /\ index[loc[c].pointerItem] = Absent

\* The pointer x is Inline or of size zero.
NotAuditable(x) == Pointers[x].kind # "Remote" \/ Pointers[x].size = 0

\* C20: a Get that fetches a pointer both expired and Inline or of size zero
\* takes the call to the Delete of its path, not to another attempt; such a
\* call returns having issued that Delete.
C20_ExpirationBeforeValidity ==
    /\ [](\A c \in Callers :
             (Returned(c) /\ SelectedExpired(c) /\ NotAuditable(loc[c].fetched)) =>
                 /\ hist[c].nDel = 1
                 /\ hist[c].delPath = loc[c].pointerItem
                 /\ res[c].stripe.isNil)
    /\ [][ \A c \in Callers :
             LET p == index[loc[c].pointerItem] IN
             ( /\ pc[c] = "get" /\ hist'[c] # hist[c] /\ res'[c].err # "GetErr"
               /\ p # Absent /\ PastExpiration(p, now) /\ NotAuditable(p) )
             => /\ pc'[c] = "delete"
                /\ loc'[c].fetched = p
                /\ loc'[c].i = loc[c].i
                /\ hist'[c].nGet = hist[c].nGet + 1 ]_vars

\* A call has deleted a pointer that was both expired and Inline.
C20_Witness ==
    \E c \in Callers :
        /\ Returned(c) /\ SelectedExpired(c) /\ NotAuditable(loc[c].fetched)
        /\ hist[c].delOk /\ index[loc[c].pointerItem] = Absent

\* C21: a call whose Delete of the expired pointer it selected failed
\* returns the error of that Delete with a nil Stripe, the one Delete being
\* the last thing it asked of the store; the step of the failed Delete ends
\* the call and leaves the index and the count of Gets as they were.
C21_DeleteFailure ==
    /\ [](\A c \in Callers :
             /\ (Returned(c) /\ hist[c].nDel > 0 /\ ~hist[c].delOk) =>
                   /\ res[c].err = "DeleteErr"
                   /\ res[c].stripe.isNil
                   /\ hist[c].nDel = 1
             /\ (Returned(c) /\ res[c].err = "DeleteErr") =>
                   /\ hist[c].nDel = 1 /\ ~hist[c].delOk
                   /\ SelectedExpired(c)
                   /\ hist[c].delPath = loc[c].pointerItem)
    /\ [][ \A c \in Callers :
             /\ (pc[c] = "delete" /\ hist'[c] # hist[c] /\ ~hist'[c].delOk) =>
                   /\ pc'[c] = "ret"
                   /\ res'[c].err = "DeleteErr"
                   /\ index' = index
                   /\ hist'[c].nGet = hist[c].nGet
                   /\ loc'[c] = loc[c]
             /\ (pc[c] = "ret" /\ res[c].err = "DeleteErr") =>
                   (pc'[c] = "ret" /\ hist'[c] = hist[c]) \/ pc'[c] = "lock" ]_vars

\* A call returns the error of its Delete with attempts to spare, the
\* expired pointer still stored under the path it selected.
C21_Witness ==
    \E c \in Callers :
        /\ Returned(c) /\ res[c].err = "DeleteErr"
        /\ hist[c].nGet < maxGetAttempts
        /\ index[loc[c].pointerItem] = loc[c].fetched

\* The pointer x has no expiration, or one that decodes to instant t or later.
Unexpired(x, t) == ~Pointers[x].hasExp \/ (Pointers[x].expOk /\ Pointers[x].expT >= t)

\* C22: a Get takes the call to a Delete only if the pointer it fetched
\* expires before the instant of the check; a fetched pointer with no
\* expiration, or expiring at that instant or later, is not deleted, and is
\* accepted if it is Remote and of nonzero size.
C22_ExpirationBoundary ==
    [][ \A c \in Callers :
          LET p == index[loc[c].pointerItem] IN
          (pc[c] = "get" /\ hist'[c] # hist[c] /\ res'[c].err # "GetErr" /\ p # Absent) =>
             /\ pc'[c] = "delete" => PastExpiration(p, now)
             /\ Unexpired(p, now) =>
                   /\ pc'[c] # "delete"
                   /\ hist'[c].nDel = 0
                   /\ index' = index
                   /\ (Pointers[p].kind = "Remote" /\ Pointers[p].size # 0) =>
                         /\ hist'[c].accepted
                         /\ loc'[c].pointer = p
                         /\ pc'[c] = "ret"
                         /\ res'[c].stripe.isNil \/ res'[c].stripe.Segment = p ]_vars

\* A Stripe is returned for a segment whose expiration is the very instant
\* at which the call checked it.
C22_Witness ==
    \E c \in Callers :
        /\ GotStripe(c) /\ res[c].stripe.Segment \in PointerIds
        /\ Pointers[res[c].stripe.Segment].hasExp
        /\ Pointers[res[c].stripe.Segment].expT = hist[c].evalNow
        /\ now = hist[c].evalNow

\* C23: a Get that fetches a pointer whose expiration does not decode ends
\* the call with (nil, timestamp error), the index as it was; a call that
\* returns that error has issued no Delete and accepted no pointer, and
\* issues nothing more.
C23_TimestampDecodeError ==
    /\ [](\A c \in Callers :
             (Returned(c) /\ res[c].err = "TimestampErr") =>
                 /\ res[c].stripe.isNil
                 /\ hist[c].nDel = 0
                 /\ ~hist[c].accepted
                 /\ Pointers[loc[c].fetched].hasExp
                 /\ ~Pointers[loc[c].fetched].expOk)
    /\ [][ \A c \in Callers :
             LET p == index[loc[c].pointerItem] IN
             /\ ( /\ pc[c] = "get" /\ hist'[c] # hist[c] /\ res'[c].err # "GetErr"
                  /\ p # Absent /\ Pointers[p].hasExp /\ ~Pointers[p].expOk )
                => /\ pc'[c] = "ret"
                   /\ res'[c] = [stripe |-> NilStripe, err |-> "TimestampErr"]
                   /\ index' = index
                   /\ hist'[c].nDel = 0
                   /\ hist'[c].nGet = hist[c].nGet + 1
             /\ (pc[c] = "ret" /\ res[c].err = "TimestampErr") =>
                   (pc'[c] = "ret" /\ hist'[c] = hist[c]) \/ pc'[c] = "lock" ]_vars

\* A call returns the timestamp error with attempts to spare, the malformed
\* pointer still stored under the path it selected.
C23_Witness ==
    \E c \in Callers :
        /\ Returned(c) /\ res[c].err = "TimestampErr"
        /\ hist[c].nGet < maxGetAttempts
        /\ index[loc[c].pointerItem] = loc[c].fetched

\* C24: a call that accepted a pointer whose scheme the resolver rejects
\* returns (nil, resolver error), having issued no Delete, and the step that
\* accepts such a pointer leaves the index as it was.
C24_ResolverFailure ==
    /\ [](\A c \in Callers :
             ( /\ Returned(c) /\ hist[c].accepted
               /\ ~Pointers[loc[c].pointer].resolvable ) =>
                 /\ res[c] = [stripe |-> NilStripe, err |-> "ResolverErr"]
                 /\ hist[c].nDel = 0
                 /\ loc[c].pointer = loc[c].fetched)
    /\ [][ \A c \in Callers :
             (hist'[c].accepted /\ ~hist[c].accepted) =>
                 /\ pc[c] = "get" /\ pc'[c] = "ret"
                 /\ index' = index ]_vars

\* A call returns the resolver's error for the pointer it accepted, which is
\* still stored under the path it selected.
C24_Witness ==
    \E c \in Callers :
        /\ Returned(c) /\ hist[c].accepted /\ res[c].err = "ResolverErr"
        /\ index[loc[c].pointerItem] = loc[c].pointer

\* C25: a call that returns the error of a List, or the Exhausted-Listing
\* error, returns no Stripe, has issued no Get and no Delete, and leaves
\* lastPath as it was when the call started.
C25_ListingFailureFrame ==
    \A c \in Callers :
        (Returned(c) /\ res[c].err \in {"ListErr", "ExhaustedListing"}) =>
            /\ lastPath = hist[c].start
            /\ hist[c].nGet = 0
            /\ hist[c].nDel = 0
            /\ ~hist[c].wrote
            /\ loc[c].pointerItem = EmptyPath
            /\ res[c].stripe.isNil

\* A call that started from a lastPath within the keyspace returns the error
\* of a List that followed an empty page.
C25_Witness ==
    \E c \in Callers :
        /\ Returned(c) /\ res[c].err = "ListErr"
        /\ hist[c].nList > 1
        /\ hist[c].start # EmptyPath

\* C26: under fair scheduling every caller is again and again out of its
\* call without the mutex, so each call in progress returns and gives up the
\* mutex whatever it returns, and again and again holds the mutex, so each
\* caller at Lock gets it; a call
\* issues at most maxListAttempts List calls, maxGetAttempts Get calls and
\* one Delete, and a held mutex is held by a call in progress.
C26_TerminationAndRelease ==
    /\ \A c \in Callers : []<>(pc[c] = "lock" /\ mutex # c)
    /\ \A c \in Callers : []<>(mutex = c)
    /\ [](\A c \in Callers :
             /\ hist[c].nList <= maxListAttempts
             /\ hist[c].nGet <= maxGetAttempts
             /\ hist[c].nDel <= 1
             /\ mutex = c => pc[c] \in {"list", "get", "delete", "ret"})
    /\ [][ \A c \in Callers :
             (pc[c] = "ret" /\ pc'[c] # "ret") => (pc'[c] = "lock" /\ mutex' = NoCaller) ]_vars

\* A call is returning an error, still holding the mutex another caller
\* waits for.
C26_Witness ==
    \E c, d \in Callers :
        /\ c # d /\ pc[d] = "lock"
        /\ pc[c] = "ret" /\ mutex = c
        /\ res[c].err \notin {"nil", "none"}

\* The paths that hold a pointer, the page of them that follows path s, and
\* the places between pages when the paths are cut into pages from the start.
Stored == {p \in Paths : index[p] # Absent}
PageAfter(s) ==
    {p \in Stored : p > s /\ Cardinality({q \in Stored : s < q /\ q <= p}) <= PageLimit}
Boundaries ==
    {EmptyPath} \cup
    {p \in Stored : /\ Cardinality({q \in Stored : q <= p}) % PageLimit = 0
                    /\ \E q \in Stored : q > p}

\* C27: on an index that holds pointers and does not change, lastPath is
\* always at a place between pages, every stored path is in the page after
\* one of those places, and no call returns Exhausted-Listing; a call that
\* lists and draws has listed, in key order, exactly the page after lastPath,
\* and moves lastPath to the end of that page, or to the start when no path
\* is stored beyond it.
C27_CyclicCoverage ==
    /\ [](/\ lastPath \in Boundaries
          /\ PageAfter(lastPath) # {}
          /\ \A p \in Stored : \E b \in Boundaries : p \in PageAfter(b)
          /\ \A b1, b2 \in Boundaries :
                b1 # b2 => PageAfter(b1) \cap PageAfter(b2) = {}
          /\ \A c \in Callers : res[c].err # "ExhaustedListing")
    /\ [][ \A c \in Callers :
             (pc[c] = "list" /\ pc'[c] = "get") =>
                LET items == loc'[c].pointerItems
                    page == PageAfter(lastPath)
                IN  /\ {items[k] : k \in 1..Len(items)} = page
                    /\ Len(items) = Cardinality(page)
                    /\ \A j, k \in 1..Len(items) : j < k => items[j] < items[k]
                    /\ lastPath' = IF \E q \in Stored : \A p \in page : q > p
                                   THEN items[Len(items)]
                                   ELSE EmptyPath
                    /\ lastPath' # lastPath \/ Boundaries = {EmptyPath} ]_vars

\* A call that started within the keyspace has listed the last page and
\* taken lastPath back to the start.
C27_Witness ==
    \E c \in Callers :
        /\ pc[c] = "get" /\ hist[c].start # EmptyPath
        /\ loc[c].pointerItems # << >> /\ ~loc[c].more
        /\ lastPath = EmptyPath
====
